---- MODULE Spec2Model ----
(***************************************************************************)
(* Model of mailchimp_to_convertkit.py: the MailChimpToConvertKit object   *)
(* (its stats counters), the field normalizers clean_tags, clean_name and  *)
(* validate_email, and the two passes analyze_input and convert over one   *)
(* input file.                                                             *)
(*                                                                         *)
(* A Python str is a sequence of one-character strings.  The four curly    *)
(* quote code points are written LDQUO, RDQUO, LSQUO, RSQUO.  None (the    *)
(* value csv.DictReader gives a column the row has no field for) is the    *)
(* one-element sequence <<"None">>, which is no string of characters.      *)
(***************************************************************************)
EXTENDS Integers, Sequences, FiniteSets, TLC

VARIABLES
    header,            \* reader.fieldnames of the input file
    rows,              \* the data lines of the input file, each a sequence of cells
    pc,                \* where the caller of the object is
    analyzed,          \* analyze_input has returned on this object
    i,                 \* rows of the running pass handled so far
    stats,             \* self.stats
    emails_seen,       \* analyze_input: emails_seen
    tags_counter,      \* analyze_input: tags_counter
    remove_duplicates, \* convert: the remove_duplicates argument
    column_mapping,    \* convert: column_mapping
    emails_processed,  \* convert: emails_processed
    outfile,           \* the lines of the output file (header line first)
    tag_string,        \* argument of a direct call of clean_tags
    ret,               \* what that call returned
    ncalls             \* direct calls of clean_tags made

vars == <<header, rows, pc, analyzed, i, stats, emails_seen, tags_counter,
          remove_duplicates, column_mapping, emails_processed, outfile,
          tag_string, ret, ncalls>>

-----------------------------------------------------------------------------
(* Bounds *)

MaxRows == 3
MaxTagLen == 4
MaxCalls == 2

-----------------------------------------------------------------------------
(* Characters and strings *)

None == <<"None">>

LDQUO == "LDQUO"
RDQUO == "RDQUO"
LSQUO == "LSQUO"
RSQUO == "RSQUO"

UpperCase == <<"A","B","C","D","E","F","G","H","I","J","K","L","M",
               "N","O","P","Q","R","S","T","U","V","W","X","Y","Z">>
LowerCase == <<"a","b","c","d","e","f","g","h","i","j","k","l","m",
               "n","o","p","q","r","s","t","u","v","w","x","y","z">>
Digits == {"0","1","2","3","4","5","6","7","8","9"}
Range(f) == {f[k] : k \in DOMAIN f}
Letters == Range(UpperCase) \cup Range(LowerCase)
Whitespace == {" ", "\t", "\n"}

\* str.lower() on one character
LowerChar(c) ==
    IF c \in Range(UpperCase)
    THEN LowerCase[CHOOSE k \in DOMAIN UpperCase : UpperCase[k] = c]
    ELSE c

\* str.lower()
Lower(s) == [k \in DOMAIN s |-> LowerChar(s[k])]

RECURSIVE LStrip(_)
LStrip(s) ==
    IF s # <<>> /\ s[1] \in Whitespace THEN LStrip(Tail(s)) ELSE s

RECURSIVE RStrip(_)
RStrip(s) ==
    IF s # <<>> /\ s[Len(s)] \in Whitespace
    THEN RStrip(SubSeq(s, 1, Len(s) - 1))
    ELSE s

\* str.strip()
Strip(s) == RStrip(LStrip(s))

\* str.replace(old, '') for a non-empty old: leftmost non-overlapping occurrences
RECURSIVE Replace(_, _)
Replace(s, old) ==
    IF Len(s) < Len(old) THEN s
    ELSE IF SubSeq(s, 1, Len(old)) = old
         THEN Replace(SubSeq(s, Len(old) + 1, Len(s)), old)
         ELSE <<s[1]>> \o Replace(Tail(s), old)

\* re.split('[...]', s) / the pieces of s between the characters of seps
RECURSIVE SplitOn(_, _)
SplitOn(s, seps) ==
    IF \A k \in DOMAIN s : s[k] \notin seps THEN <<s>>
    ELSE LET p == CHOOSE k \in DOMAIN s :
                      s[k] \in seps /\ \A m \in 1..(k - 1) : s[m] \notin seps
         IN <<SubSeq(s, 1, p - 1)>> \o SplitOn(SubSeq(s, p + 1, Len(s)), seps)

RECURSIVE DropEmpty(_)
DropEmpty(ss) ==
    IF ss = <<>> THEN <<>>
    ELSE IF Head(ss) = <<>> THEN DropEmpty(Tail(ss))
         ELSE <<Head(ss)>> \o DropEmpty(Tail(ss))

\* str.split() with no argument: the whitespace-delimited words
Words(s) == DropEmpty(SplitOn(s, Whitespace))

\* sep.join(ss)
RECURSIVE Join(_, _)
Join(ss, sep) ==
    IF ss = <<>> THEN <<>>
    ELSE IF Len(ss) = 1 THEN ss[1]
         ELSE ss[1] \o sep \o Join(Tail(ss), sep)

\* s.split(sep) for a two-character sep
RECURSIVE SplitStr(_, _)
SplitStr(s, sep) ==
    IF \A k \in 1..(Len(s) - Len(sep) + 1) : SubSeq(s, k, k + Len(sep) - 1) # sep
    THEN <<s>>
    ELSE LET p == CHOOSE k \in 1..(Len(s) - Len(sep) + 1) :
                      /\ SubSeq(s, k, k + Len(sep) - 1) = sep
                      /\ \A m \in 1..(k - 1) : SubSeq(s, m, m + Len(sep) - 1) # sep
         IN <<SubSeq(s, 1, p - 1)>> \o SplitStr(SubSeq(s, p + Len(sep), Len(s)), sep)

-----------------------------------------------------------------------------
(* The field normalizers *)

\* quotes_to_remove as line 66 spells it: after the four straight-quote
\* entries comes the string literal ''', ''' , which is the two characters ', '
quotes_to_remove == << <<"\"">>, <<"'">>, <<"\"">>, <<"\"">>, <<",", " ">> >>

RECURSIVE RemoveQuotes(_, _)
RemoveQuotes(s, quotes) ==
    IF quotes = <<>> THEN s
    ELSE RemoveQuotes(Replace(s, Head(quotes)), Tail(quotes))

TagDelimiters == {",", ";", "|"}

\* ' '.join(tag.split()) of every piece
CleanEach(tags) == [k \in DOMAIN tags |-> Join(Words(tags[k]), <<" ">>)]

\* clean_tags: the list cleaned_tags
cleaned_tags(s) ==
    IF s = None \/ s = <<>> THEN <<>>
    ELSE DropEmpty(CleanEach(SplitOn(RemoveQuotes(Strip(s), quotes_to_remove),
                                     TagDelimiters)))

\* clean_tags: the value returned
clean_tags(s) == Join(cleaned_tags(s), <<",", " ">>)

Incr(st, key) == [st EXCEPT ![key] = @ + 1]

\* clean_tags: its effect on self.stats
clean_tags_stats(st, s) ==
    IF cleaned_tags(s) # <<>> THEN Incr(st, "tags_cleaned") ELSE st

clean_name(name) ==
    IF name = None \/ name = <<>> THEN <<>> ELSE Join(Words(name), <<" ">>)

LocalChars == Letters \cup Digits \cup {".", "_", "%", "+", "-"}
DomainChars == Letters \cup Digits \cup {".", "-"}

\* re.match(r'^[a-zA-Z0-9._%+-]+@[a-zA-Z0-9.-]+\.[a-zA-Z]{2,}$', e)
MatchesPattern(e) ==
    \E a \in DOMAIN e : \E d \in DOMAIN e :
        /\ 1 < a /\ a + 1 < d /\ d + 2 <= Len(e)
        /\ e[a] = "@" /\ e[d] = "."
        /\ \A k \in 1..(a - 1) : e[k] \in LocalChars
        /\ \A k \in (a + 1)..(d - 1) : e[k] \in DomainChars
        /\ \A k \in (d + 1)..Len(e) : e[k] \in Letters

validate_email(email) ==
    IF email = None \/ email = <<>> THEN FALSE ELSE MatchesPattern(Strip(email))

-----------------------------------------------------------------------------
(* The input file *)

\* csv.DictReader: the row as a mapping; a column the line has no field for is None
DictRow(h, line) ==
    [c \in Range(h) |->
        LET p == CHOOSE k \in DOMAIN h : h[k] = c
        IN IF p <= Len(line) THEN line[p] ELSE None]

\* row.get(key, '')
Get(row, key) == IF key \in DOMAIN row THEN row[key] ELSE <<>>

HeaderMailChimp == <<"Email Address", "First Name", "Last Name", "TAGS">>
HeaderPlain == <<"Email", "First Name", "Last Name", "Tags">>
HeaderNameFirst == <<"First Name", "Email Address", "TAGS">>
Headers == {HeaderMailChimp, HeaderPlain, HeaderNameFirst}

Contact(e, f, l, t, n) == [email |-> e, first |-> f, last |-> l, tags |-> t, nfields |-> n]

Contacts == {
    Contact(<<"a","@","b",".","c","o">>, <<"J">>, <<"Q">>, <<"V">>, 4),
    Contact(<<"A","@","b",".","c","o">>, <<" ","J"," "," ","Q"," ">>, <<>>,
            <<"V",";","'","n","'">>, 4),
    Contact(<<" ","a","@","b",".","c","o"," ">>, <<>>, <<>>, <<>>, 4),
    Contact(<<"c","@","d",".","i","o">>, <<>>, <<"Q">>, <<"'",",",";">>, 4),
    Contact(<<>>, <<"J">>, <<>>, <<"V">>, 4),
    Contact(<<"a","b">>, <<>>, <<>>, <<"n">>, 4),
    Contact(<<" ">>, <<>>, <<>>, <<>>, 4),
    Contact(<<"a","@","b",".","c","o">>, <<"J">>, <<>>, <<"V">>, 1) }

Cell(c, col) ==
    CASE col \in {"Email Address", "Email"} -> c.email
      [] col = "First Name" -> c.first
      [] col = "Last Name" -> c.last
      [] col \in {"TAGS", "Tags"} -> c.tags

\* the line of the file that holds the first c.nfields fields of contact c
Line(h, c) ==
    LET n == IF c.nfields < Len(h) THEN c.nfields ELSE Len(h)
    IN [k \in 1..n |-> Cell(c, h[k])]

Lines(h) == {Line(h, c) : c \in Contacts}

SeqsUpTo(S, n) == UNION {[1..m -> S] : m \in 0..n}

-----------------------------------------------------------------------------
(* The object and its caller *)

fieldnames == <<"Email", "First Name", "Last Name", "Tags">>

InitStats ==
    [total_rows |-> 0, processed |-> 0, skipped |-> 0, duplicates |-> 0,
     invalid_emails |-> 0, tags_cleaned |-> 0]

NoCounter == [t \in {} |-> 0]

Init ==
    /\ header \in Headers
    /\ rows \in SeqsUpTo(Lines(header), MaxRows)
    /\ pc = "constructed"
    /\ analyzed = FALSE
    /\ i = 0
    /\ stats = InitStats
    /\ emails_seen = <<>>
    /\ tags_counter = NoCounter
    /\ remove_duplicates = TRUE
    /\ column_mapping = [c \in {} |-> ""]
    /\ emails_processed = {}
    /\ outfile = <<>>
    /\ tag_string = <<>>
    /\ ret = <<>>
    /\ ncalls = 0

CleanVars == <<tag_string, ret, ncalls>>
FileVars == <<header, rows>>
AnalyzeVars == <<emails_seen, tags_counter>>
ConvertVars == <<remove_duplicates, column_mapping, emails_processed, outfile>>

-----------------------------------------------------------------------------
(* analyze_input *)

AnalyzeBegin ==
    /\ pc = "constructed"
    /\ pc' = "analyze"
    /\ i' = 0
    /\ emails_seen' = <<>>
    /\ tags_counter' = NoCounter
    /\ UNCHANGED <<FileVars, analyzed, stats, ConvertVars, CleanVars>>

\* tags_counter[tag] += 1 for every non-empty tag of the list
RECURSIVE CountTags(_, _)
CountTags(tc, tags) ==
    IF tags = <<>> THEN tc
    ELSE LET t == Head(tags)
             tc1 == IF t = <<>> THEN tc
                    ELSE IF t \in DOMAIN tc THEN [tc EXCEPT ![t] = @ + 1]
                    ELSE tc @@ (t :> 1)
         IN CountTags(tc1, Tail(tags))

AnalyzeEmailCell(row) == Get(row, "Email Address")
AnalyzeTagsCell(row) == Get(row, "TAGS")

\* the loop body reaches a cell that is None and calls .strip() on it
AnalyzeRaises(row) ==
    \/ AnalyzeEmailCell(row) = None
    \/ /\ validate_email(Lower(Strip(AnalyzeEmailCell(row))))
       /\ AnalyzeTagsCell(row) = None

AnalyzeRow ==
    /\ pc = "analyze"
    /\ i < Len(rows)
    /\ LET row == DictRow(header, rows[i + 1])
           email == Lower(Strip(AnalyzeEmailCell(row)))
           tags == Strip(AnalyzeTagsCell(row))
           st == Incr(stats, "total_rows")
       IN /\ ~AnalyzeRaises(row)
          /\ IF email # <<>> /\ validate_email(email)
             THEN /\ emails_seen' = Append(emails_seen, email)
                  /\ IF tags # <<>>
                     THEN /\ stats' = clean_tags_stats(st, tags)
                          /\ tags_counter' =
                                CountTags(tags_counter,
                                          SplitStr(clean_tags(tags), <<",", " ">>))
                     ELSE /\ stats' = st
                          /\ UNCHANGED tags_counter
             ELSE /\ stats' = IF email # <<>> THEN Incr(st, "invalid_emails") ELSE st
                  /\ UNCHANGED AnalyzeVars
    /\ i' = i + 1
    /\ UNCHANGED <<FileVars, pc, analyzed, ConvertVars, CleanVars>>

\* AttributeError: 'NoneType' object has no attribute 'strip'
AnalyzeRowError ==
    /\ pc = "analyze"
    /\ i < Len(rows)
    /\ LET row == DictRow(header, rows[i + 1])
       IN /\ AnalyzeRaises(row)
          /\ emails_seen' =
                IF AnalyzeEmailCell(row) = None THEN emails_seen
                ELSE Append(emails_seen, Lower(Strip(AnalyzeEmailCell(row))))
    /\ stats' = Incr(stats, "total_rows")
    /\ pc' = "error"
    /\ UNCHANGED <<FileVars, analyzed, i, tags_counter, ConvertVars, CleanVars>>

Occurrences(s, e) == Cardinality({k \in DOMAIN s : s[k] = e})

AnalyzeEnd ==
    /\ pc = "analyze"
    /\ i = Len(rows)
    /\ stats' = [stats EXCEPT !["duplicates"] =
                    Cardinality({e \in Range(emails_seen) : Occurrences(emails_seen, e) > 1})]
    /\ analyzed' = TRUE
    /\ pc' = "analyzed"
    /\ UNCHANGED <<FileVars, i, AnalyzeVars, ConvertVars, CleanVars>>

-----------------------------------------------------------------------------
(* convert *)

ResolveColumns(available_columns) ==
    [c \in Range(fieldnames) |->
        CASE c = "Email" ->
                IF "Email" \in Range(available_columns) THEN "Email" ELSE "Email Address"
          [] c = "Tags" ->
                IF "Tags" \in Range(available_columns) THEN "Tags" ELSE "TAGS"
          [] OTHER -> c]

ConvertBegin ==
    /\ pc \in {"constructed", "analyzed"}
    /\ \E rd \in BOOLEAN : remove_duplicates' = rd
    /\ emails_processed' = {}
    /\ column_mapping' = ResolveColumns(header)
    /\ outfile' = <<fieldnames>>
    /\ i' = 0
    /\ pc' = "convert"
    /\ UNCHANGED <<FileVars, analyzed, stats, AnalyzeVars, CleanVars>>

ConvertEmailCell(row) == Get(row, column_mapping["Email"])

SkipsInvalid_emptyOnly(email) == email = <<>>

\* not email or not self.validate_email(email)
SkipsInvalid(email) == email = <<>> \/ ~validate_email(email)

IsDuplicate_caseSensitive(rd, email, seen) == rd /\ email \in seen

IsDuplicate_ignoresFlag(rd, email, seen) == Lower(email) \in seen

\* remove_duplicates and email_lower in emails_processed
IsDuplicate(rd, email, seen) == rd /\ Lower(email) \in seen

SkipDuplicateStats_wrongKey(st) == Incr(st, "duplicates")

\* the duplicate branch: self.stats['skipped'] += 1
SkipDuplicateStats(st) == Incr(st, "skipped")

clean_row(row, email) ==
    << email,
       clean_name(Get(row, column_mapping["First Name"])),
       clean_name(Get(row, column_mapping["Last Name"])),
       clean_tags(Get(row, column_mapping["Tags"])) >>

ConvertSkipInvalid ==
    /\ pc = "convert"
    /\ i < Len(rows)
    /\ LET row == DictRow(header, rows[i + 1])
       IN /\ ConvertEmailCell(row) # None
          /\ SkipsInvalid(Strip(ConvertEmailCell(row)))
    /\ stats' = Incr(stats, "skipped")
    /\ i' = i + 1
    /\ UNCHANGED <<FileVars, pc, analyzed, AnalyzeVars, ConvertVars, CleanVars>>

ConvertSkipDuplicate ==
    /\ pc = "convert"
    /\ i < Len(rows)
    /\ LET row == DictRow(header, rows[i + 1])
       IN /\ ConvertEmailCell(row) # None
          /\ ~SkipsInvalid(Strip(ConvertEmailCell(row)))
          /\ IsDuplicate(remove_duplicates, Strip(ConvertEmailCell(row)), emails_processed)
    /\ stats' = SkipDuplicateStats(stats)
    /\ i' = i + 1
    /\ UNCHANGED <<FileVars, pc, analyzed, AnalyzeVars, ConvertVars, CleanVars>>

ConvertWrite ==
    /\ pc = "convert"
    /\ i < Len(rows)
    /\ LET row == DictRow(header, rows[i + 1])
           email == Strip(ConvertEmailCell(row))
       IN /\ ConvertEmailCell(row) # None
          /\ ~SkipsInvalid(email)
          /\ ~IsDuplicate(remove_duplicates, email, emails_processed)
          /\ emails_processed' = emails_processed \cup {Lower(email)}
          /\ outfile' = Append(outfile, clean_row(row, email))
          /\ stats' = Incr(clean_tags_stats(stats, Get(row, column_mapping["Tags"])),
                           "processed")
    /\ i' = i + 1
    /\ UNCHANGED <<FileVars, pc, analyzed, AnalyzeVars, remove_duplicates,
                   column_mapping, CleanVars>>

\* AttributeError: 'NoneType' object has no attribute 'strip'
ConvertRowError ==
    /\ pc = "convert"
    /\ i < Len(rows)
    /\ ConvertEmailCell(DictRow(header, rows[i + 1])) = None
    /\ pc' = "error"
    /\ UNCHANGED <<FileVars, analyzed, i, stats, AnalyzeVars, ConvertVars, CleanVars>>

ConvertEnd ==
    /\ pc = "convert"
    /\ i = Len(rows)
    /\ pc' = "done"
    /\ UNCHANGED <<FileVars, analyzed, i, stats, AnalyzeVars, ConvertVars, CleanVars>>

Next ==
    \/ AnalyzeBegin
    \/ AnalyzeRow
    \/ AnalyzeRowError
    \/ AnalyzeEnd
    \/ ConvertBegin
    \/ ConvertSkipInvalid
    \/ ConvertSkipDuplicate
    \/ ConvertWrite
    \/ ConvertRowError
    \/ ConvertEnd

Spec == Init /\ [][Next]_vars

-----------------------------------------------------------------------------
(* clean_tags called directly, then called again on what it returned *)

TagChars == {"V", "n", ",", ";", "|", " ", "'", "\"", LDQUO}

InitClean ==
    /\ header = <<>>
    /\ rows = <<>>
    /\ pc = "clean_tags"
    /\ analyzed = FALSE
    /\ i = 0
    /\ stats = InitStats
    /\ emails_seen = <<>>
    /\ tags_counter = NoCounter
    /\ remove_duplicates = TRUE
    /\ column_mapping = [c \in {} |-> ""]
    /\ emails_processed = {}
    /\ outfile = <<>>
    /\ tag_string \in SeqsUpTo(TagChars, MaxTagLen)
    /\ ret = <<>>
    /\ ncalls = 0

CleanTagsCall ==
    /\ pc = "clean_tags"
    /\ ret' = clean_tags(tag_string)
    /\ stats' = clean_tags_stats(stats, tag_string)
    /\ ncalls' = ncalls + 1
    /\ pc' = "returned"
    /\ UNCHANGED <<FileVars, analyzed, i, AnalyzeVars, ConvertVars, tag_string>>

CleanTagsAgain ==
    /\ pc = "returned"
    /\ ncalls < MaxCalls
    /\ tag_string' = ret
    /\ pc' = "clean_tags"
    /\ UNCHANGED <<FileVars, analyzed, i, stats, AnalyzeVars, ConvertVars, ret, ncalls>>

NextClean ==
    \/ CleanTagsCall
    \/ CleanTagsAgain

SpecClean == InitClean /\ [][NextClean]_vars

-----------------------------------------------------------------------------
(* Properties of convert *)

\* convert has opened the output file; i then counts the rows convert handled
Converting == outfile # <<>>

\* the data rows of the output file
data == Tail(outfile)

ConvCell(j) == ConvertEmailCell(DictRow(header, rows[j]))
ConvEmail(j) == Strip(ConvCell(j))

\* row j holds a string in its email cell that is non-empty and matches the pattern
RowValid(j) ==
    /\ ConvCell(j) # None
    /\ ConvEmail(j) # <<>>
    /\ MatchesPattern(ConvEmail(j))

\* row j holds a string in its email cell that is empty or does not match
RowInvalid(j) ==
    /\ ConvCell(j) # None
    /\ (ConvEmail(j) = <<>> \/ ~MatchesPattern(ConvEmail(j)))

SameAddress(j, k) == Lower(ConvEmail(j)) = Lower(ConvEmail(k))

\* an earlier valid row has the same lowercased email as row j
HasEarlier(j) == \E k \in 1..(j - 1) : RowValid(k) /\ SameAddress(j, k)

\* the first valid row with the lowercased email of row j
FirstOf(j) ==
    CHOOSE k \in 1..j : RowValid(k) /\ SameAddress(j, k) /\ ~HasEarlier(k)

\* row j validated and cleaned on its own
ExpectedRow(j) ==
    LET row == DictRow(header, rows[j])
    IN << ConvEmail(j),
          clean_name(Get(row, column_mapping["First Name"])),
          clean_name(Get(row, column_mapping["Last Name"])),
          clean_tags(Get(row, column_mapping["Tags"])) >>

WrittenFor(j) == {m \in DOMAIN data : Lower(data[m][1]) = Lower(ConvEmail(j))}

\* C1: with remove_duplicates=True, of the handled rows whose valid emails are
\* equal after lowercasing exactly one is in the output, and it is the first
\* of them; every later one was skipped and counted under 'skipped'; no two
\* output rows have the same lowercased email.
C1_FirstOccurrenceWins ==
    (Converting /\ remove_duplicates) =>
        /\ \A j \in 1..i : RowValid(j) =>
              /\ Cardinality(WrittenFor(j)) = 1
              /\ \A m \in WrittenFor(j) : data[m] = ExpectedRow(FirstOf(j))
        /\ \A m, n \in DOMAIN data : Lower(data[m][1]) = Lower(data[n][1]) => m = n
        /\ stats.skipped = Cardinality({j \in 1..i : RowInvalid(j)})
                         + Cardinality({j \in 1..i : RowValid(j) /\ HasEarlier(j)})

C1_Witness ==
    /\ pc = "done" /\ remove_duplicates
    /\ \E j, k \in 1..i :
          /\ j < k /\ RowValid(j) /\ RowValid(k) /\ SameAddress(j, k)
          /\ ConvEmail(j) # ConvEmail(k)
          /\ ~HasEarlier(j)
          /\ \E m \in DOMAIN data : data[m][1] = ConvEmail(j)
    /\ stats.skipped >= 1

\* C2: whatever remove_duplicates is, the step of convert that handles a row
\* whose email cell is empty after trimming or fails the pattern writes nothing
\* to the output and adds exactly one to 'skipped'.
C2_InvalidEmailSkipped ==
    [][(pc = "convert" /\ i < Len(rows) /\ RowInvalid(i + 1)) =>
           /\ outfile' = outfile
           /\ stats'.skipped = stats.skipped + 1
           /\ stats'.processed = stats.processed
           /\ i' = i + 1]_vars

C2_Witness ==
    /\ pc = "convert" /\ i >= 2
    /\ RowInvalid(i) /\ ConvEmail(i) # <<>>
    /\ RowValid(i - 1)
    /\ stats.skipped >= 1
    /\ Len(data) = stats.processed

RECURSIVE ValidRowsUpTo(_)
ValidRowsUpTo(n) ==
    IF n = 0 THEN <<>>
    ELSE ValidRowsUpTo(n - 1) \o (IF RowValid(n) THEN <<ExpectedRow(n)>> ELSE <<>>)

\* C9: with remove_duplicates=False the output holds, in input order, every
\* handled row with a valid email, each validated and cleaned on its own, also
\* when an earlier row has the same lowercased email; 'skipped' counts only the
\* rows with an empty or invalid email.
C9_KeepDuplicates ==
    (Converting /\ ~remove_duplicates) =>
        /\ data = ValidRowsUpTo(i)
        /\ stats.skipped = Cardinality({j \in 1..i : RowInvalid(j)})

C9_Witness ==
    /\ pc = "done" /\ ~remove_duplicates
    /\ \E j, k \in 1..i : j < k /\ RowValid(j) /\ RowValid(k) /\ SameAddress(j, k)
    /\ \E j \in 1..i : RowInvalid(j)
    /\ Len(data) >= 2

\* the rows of S, a set of row numbers, in increasing order, as convert writes them
RECURSIVE SelectRows(_, _)
SelectRows(S, n) ==
    IF n = 0 THEN <<>>
    ELSE SelectRows(S, n - 1) \o (IF n \in S THEN <<ExpectedRow(n)>> ELSE <<>>)

\* C10: once convert has handled i rows, processed + skipped = i, processed is
\* the number of data rows in the output, the header line comes first, and the
\* data rows are a selection of the source rows in their original order.
C10_Conservation ==
    Converting =>
        /\ stats.processed + stats.skipped = i
        /\ stats.processed = Len(data)
        /\ outfile[1] = fieldnames
        /\ \E S \in SUBSET (1..i) : data = SelectRows(S, i)

C10_Witness ==
    /\ pc = "done" /\ i >= 3
    /\ stats.processed >= 2 /\ stats.skipped >= 1

\* C6: analyze_input leaves the counters convert reports as convert alone would
\* set them: at the end of convert, also after analyze_input ran on the same
\* object, 'tags_cleaned' is the number of rows written with non-empty cleaned
\* tags, 'processed' the number of rows written and 'skipped' the rest.
C6_AnalysisLeavesCounters ==
    pc = "done" =>
        /\ stats.tags_cleaned = Cardinality({m \in DOMAIN data : data[m][4] # <<>>})
        /\ stats.processed = Len(data)
        /\ stats.skipped = i - Len(data)

\* C7: for a file with an 'Email Address' or 'Email' column, analysed and then
\* converted with duplicates kept, the rows analyze_input counted as valid are
\* as many as convert wrote, and the rows it counted as invalid as many as
\* convert skipped for a non-blank invalid email.
C7_PassesAgree ==
    (/\ pc = "done" /\ analyzed /\ ~remove_duplicates
     /\ Range(header) \cap {"Email Address", "Email"} # {}) =>
        /\ Len(emails_seen) = stats.processed
        /\ stats.invalid_emails =
              stats.skipped - Cardinality({j \in 1..i : ConvEmail(j) = <<>>})

\* C8: no row makes analyze_input or convert raise: the caller never reaches
\* the error exit.
C8_NoRowAborts == pc # "error"

-----------------------------------------------------------------------------
(* Properties of clean_tags *)

QuoteChars == {"'", "\"", LDQUO, RDQUO, LSQUO, RSQUO}

StripQuotes(s) == SelectSeq(s, LAMBDA c : c \notin QuoteChars)

\* the tag cleaning the documentation describes
DocumentedCleanTags(s) ==
    Join(DropEmpty(CleanEach(SplitOn(StripQuotes(Strip(s)), TagDelimiters))),
         <<",", " ">>)

\* C3: clean_tags returns the input trimmed, stripped of quote characters,
\* split at every ',', ';' and '|', each piece whitespace-normalised, the empty
\* pieces dropped and the rest joined in order by ', ' (so "V, V" gives "V, V").
C3_CleanTagsResult ==
    (pc = "returned" /\ ncalls = 1) => ret = DocumentedCleanTags(tag_string)

\* C4: what clean_tags returns holds no straight or curly quote character.
C4_NoQuotesLeft ==
    pc = "returned" => \A k \in DOMAIN ret : ret[k] \notin QuoteChars

\* C5: clean_tags is idempotent: called on a string it returned, it returns
\* that string.
C5_Idempotent ==
    (pc = "returned" /\ ncalls >= 2) => ret = tag_string

====
